---- MODULE Spec2Model ----
(***************************************************************************)
(* weread_to_feishu.py: a one-shot pipeline                                *)
(*   validate_environment -> get_feishu_access_token                       *)
(*   -> get_weread_books_with_retry -> transform_book_to_feishu_record*    *)
(*   -> batch_update_feishu_table.                                         *)
(*                                                                         *)
(* Python / JSON values are tagged records:                                *)
(*   None / null   [t |-> "null"]                                          *)
(*   str           [t |-> "str", s |-> <<fragments>>]                      *)
(*   int           [t |-> "num", n |-> n]                                  *)
(*   huge number   [t |-> "bignum"]      (outside the platform's time_t)   *)
(*   list          [t |-> "list", items |-> <<...>>]                       *)
(*   dict          [t |-> "dict", kv |-> {<<key, value>>, ...}]            *)
(* The Chinese column names of the destination table are written in ASCII: *)
(*   title = 书名, author = 作者, progress = 阅读进度, status = 阅读状态,  *)
(*   cover = 封面, categories = 分类, finish_date = 完成时间.              *)
(***************************************************************************)
EXTENDS Integers, Sequences, FiniteSets, TLC

VARIABLES
    env,            \* module-level configuration read by os.getenv (lines 12-16)
    tz,             \* the host's local UTC offset in seconds (datetime.fromtimestamp)
    pc,             \* position of main()
    missing_vars,   \* validate_environment's list of missing names
    access_token,   \* main()'s access_token
    calls,          \* the network calls issued so far, in order, each with its outcome
    sleeps,         \* the time.sleep pauses taken so far, in milliseconds
    attempt_number, \* the retry decorator's attempt counter
    books,          \* main()'s books
    k,              \* position of main()'s transform loop (1-based)
    feishu_records, \* main()'s feishu_records / batch_update_feishu_table's records
    i,              \* batch_update_feishu_table's loop offset
    success_count,  \* batch_update_feishu_table's success_count
    ret,            \* what batch_update_feishu_table returned
    output,         \* the outcome lines printed (abort reasons, summary, verdict)
    uncaught        \* the exception that ended main(), or "none"

vars == <<env, tz, pc, missing_vars, access_token, calls, sleeps, attempt_number,
          books, k, feishu_records, i, success_count, ret, output, uncaught>>

-----------------------------------------------------------------------------
(* Values *)

None == [t |-> "null"]
Str(s) == [t |-> "str", s |-> s]
Num(n) == [t |-> "num", n |-> n]
BigNum == [t |-> "bignum"]
List(xs) == [t |-> "list", items |-> xs]
Dict(kv) == [t |-> "dict", kv |-> kv]
Absent == [t |-> "absent"]   \* used only to build dicts: the key is left out

\* a dict from a record, leaving out the keys marked Absent
MkDict(f) == Dict({<<key, f[key]>> : key \in {x \in DOMAIN f : f[x] # Absent}})

HasKey(d, key) == \E p \in d.kv : p[1] = key

\* dict.get(key, default)
Get(d, key, default) ==
    IF HasKey(d, key) THEN (CHOOSE p \in d.kv : p[1] = key)[2] ELSE default

\* Python truthiness
Truthy(v) ==
    CASE v.t = "null" -> FALSE
      [] v.t = "str" -> v.s # <<>>
      [] v.t = "num" -> v.n # 0
      [] v.t = "bignum" -> TRUE
      [] v.t = "list" -> v.items # <<>>
      [] v.t = "dict" -> v.kv # {}

\* the outcome of a call: a value returned or an exception raised
Returned(v) == [raised |-> FALSE, value |-> v]
Raised(e) == [raised |-> TRUE, exc |-> e]

-----------------------------------------------------------------------------
(* transform_book_to_feishu_record *)

UnknownTitle == Str(<<"unknown-title">>)     \* "未知书名"
UnknownAuthor == Str(<<"unknown-author">>)   \* "未知作者"
Finished == Str(<<"finished">>)              \* "读完"
Reading == Str(<<"reading">>)                \* "在读"

\* str.startswith
StartsWith(s, prefix) ==
    Len(s) >= Len(prefix) /\ SubSeq(s, 1, Len(prefix)) = prefix

HttpPrefix == <<"h", "t", "t", "p">>

Pad2(n) == IF n < 10 THEN "0" \o ToString(n) ELSE ToString(n)

\* the civil date of a day count since 1970-01-01 (proleptic Gregorian)
CivilFromDays(days) ==
    LET z == days + 719468
        era == z \div 146097
        doe == z - era * 146097
        yoe == (doe - doe \div 1460 + doe \div 36524 - doe \div 146096) \div 365
        doy == doe - (365 * yoe + yoe \div 4 - yoe \div 100)
        mp == (5 * doy + 2) \div 153
        d == doy - (153 * mp + 2) \div 5 + 1
        m == IF mp < 10 THEN mp + 3 ELSE mp - 9
        y == yoe + era * 400 + (IF m <= 2 THEN 1 ELSE 0)
    IN [y |-> y, m |-> m, d |-> d]

\* datetime.fromtimestamp(ts).strftime("%Y-%m-%d") in the host's time zone;
\* raises for anything but a number in range
FormatTimestamp(ts, offset) ==
    IF ts.t # "num" THEN Raised(IF ts.t = "bignum" THEN "OverflowError" ELSE "TypeError")
    ELSE LET c == CivilFromDays((ts.n + offset) \div 86400)
         IN Returned(Str(<<ToString(c.y), "-", Pad2(c.m), "-", Pad2(c.d)>>))

\* lines 101-107
BaseFields(book_info) ==
    LET progress == Get(book_info, "readingProgress", Num(0))
    IN {<<"title", Get(book_info, "title", UnknownTitle)>>,
        <<"author", Get(book_info, "author", UnknownAuthor)>>,
        <<"progress", IF Truthy(progress) THEN progress ELSE Num(0)>>,
        <<"status", IF Get(book_info, "markedStatus", None) = Num(4)
                    THEN Finished ELSE Reading>>}

\* lines 109-113: Returned(the pairs to add) or Raised
CoverFields(book_info) ==
    LET cover_url == Get(book_info, "cover", Str(<<>>))
    IN IF ~Truthy(cover_url) THEN Returned({})
       ELSE IF cover_url.t # "str" THEN Raised("AttributeError")
       ELSE IF StartsWith(cover_url.s, HttpPrefix)
            THEN Returned({<<"cover", List(<<Dict({<<"text", cover_url>>,
                                                   <<"type", Str(<<"url">>)>>})>>)>>})
            ELSE Returned({})

\* x["title"] for one entry of categories
CategoryTitle(x) ==
    IF x.t = "dict"
    THEN IF HasKey(x, "title") THEN Returned(Get(x, "title", None)) ELSE Raised("KeyError")
    ELSE Raised("TypeError")

\* lines 115-118
CategoryFields(book_info) ==
    LET categories == Get(book_info, "categories", None)
    IN IF ~Truthy(categories) THEN Returned({})
       ELSE IF categories.t # "list" THEN Raised("TypeError")
       ELSE LET rs == [n \in 1..Len(categories.items) |-> CategoryTitle(categories.items[n])]
            IN IF \E n \in DOMAIN rs : rs[n].raised
               THEN Raised(rs[CHOOSE n \in DOMAIN rs :
                                 rs[n].raised /\ \A m \in 1..(n - 1) : ~rs[m].raised].exc)
               ELSE Returned({<<"categories",
                               List([n \in DOMAIN rs |-> rs[n].value])>>})

\* lines 120-126: the bare except swallows every failure of the conversion
FinishFields(book_info, offset) ==
    IF HasKey(book_info, "finishReadingTime")
    THEN LET r == FormatTimestamp(Get(book_info, "finishReadingTime", None), offset)
         IN IF r.raised THEN {} ELSE {<<"finish_date", r.value>>}
    ELSE {}

transform_book_to_feishu_record(book, offset) ==
    IF book.t # "dict" THEN Raised("AttributeError")
    ELSE LET book_info == Get(book, "book", Dict({}))
         IN IF book_info.t # "dict" THEN Raised("AttributeError")
            ELSE LET cover == CoverFields(book_info)
                     cats == CategoryFields(book_info)
                 IN IF cover.raised THEN cover
                    ELSE IF cats.raised THEN cats
                    ELSE Returned(Dict({<<"fields",
                             Dict(BaseFields(book_info) \cup cover.value \cup cats.value
                                  \cup FinishFields(book_info, offset))>>}))

-----------------------------------------------------------------------------
(* HTTP responses: requests raises (a RequestException: connection error,   *)
(* timeout) or hands back a status code and a body; response.json() raises  *)
(* on a body that is no JSON.                                               *)

NetError == [kind |-> "neterr"]
Http(status, body) == [kind |-> "http", status |-> status, body |-> body]
NotJson == [t |-> "notjson"]

-----------------------------------------------------------------------------
(* validate_environment *)

required_vars ==
    <<"WEREAD_COOKIE", "FEISHU_APP_ID", "FEISHU_APP_SECRET", "FEISHU_APP_TOKEN",
      "FEISHU_TABLE_ID">>

\* the test `value is None`, which lets an empty value through
IsNone(value) == value = None

\* line 193: `if not value`
IsMissing(value) == ~Truthy(value)

\* line 193: the names whose value is missing, in the dict's order
MissingVars(e) == SelectSeq(required_vars, LAMBDA var : IsMissing(e[var]))

-----------------------------------------------------------------------------
(* get_feishu_access_token *)

\* lines 83-95: every exception is caught and gives None; the status code is not read
get_feishu_access_token(resp) ==
    IF resp.kind = "neterr" THEN None
    ELSE IF resp.body = NotJson THEN None
    ELSE IF resp.body.t # "dict" THEN None
    ELSE IF Get(resp.body, "code", None) = Num(0)
         THEN Get(resp.body, "tenant_access_token", None)
         ELSE None

-----------------------------------------------------------------------------
(* get_weread_books_with_retry: the decorated function's body, one attempt *)

\* lines 57-59: the preview of one book
PreviewRaises(book) ==
    \/ book.t # "dict"
    \/ Get(book, "book", Dict({})).t # "dict"

\* lines 46-73
get_weread_books(resp) ==
    IF resp.kind = "neterr" THEN Returned(None)
    ELSE IF resp.status # 200 THEN Returned(None)
    ELSE IF resp.body = NotJson THEN Returned(None)
    ELSE IF resp.body.t # "dict" THEN Raised("AttributeError")
    ELSE LET books_ == Get(resp.body, "books", List(<<>>))
         IN IF books_.t \notin {"str", "list", "dict"} THEN Raised("TypeError")
            ELSE IF ~Truthy(books_) THEN Returned(books_)
            ELSE IF books_.t = "dict" THEN Raised("TypeError")
            ELSE IF books_.t = "str" THEN Raised("AttributeError")
            ELSE IF \E n \in 1..Len(books_.items) : n <= 3 /\ PreviewRaises(books_.items[n])
                 THEN Raised("AttributeError")
                 ELSE Returned(books_)

\* lines 23-25
retry_if_result_none(result) == result = None \/ result = List(<<>>)

\* one attempt more than the decorator is given
FourAttempts == 3 + 1

\* line 27: stop_max_attempt_number, wait_fixed (milliseconds)
StopMaxAttemptNumber == 3
WaitFixed == 2000

\* a predicate that asks for a retry whatever the attempt gave
RejectAlways(attempt) == TRUE

\* line 27: retry_on_result is given, retry_on_exception is left at the decorator's
\* default, which retries after every exception
ShouldReject(attempt) ==
    IF attempt.raised THEN TRUE ELSE retry_if_result_none(attempt.value)

-----------------------------------------------------------------------------
(* The environment: configurations, responses, book lists *)

MaxBooks == 11      \* longest book list the source returns in a whole run
MaxRecords == 23    \* longest record list handed to the writer on its own

ConfigValues == {None, Str(<<>>), Str(<<"set">>)}
TzOffsets == {0, 28800}
Token == Str(<<"t-abc">>)

TokenBodies ==
    {NotJson, List(<<>>),
     Dict({<<"code", Num(0)>>, <<"tenant_access_token", Token>>}),
     Dict({<<"code", Num(0)>>, <<"tenant_access_token", Str(<<>>)>>}),
     Dict({<<"code", Num(0)>>}),
     Dict({<<"code", Num(10003)>>, <<"msg", Str(<<"invalid param">>)>>}),
     Dict({<<"msg", Str(<<"?">>)>>})}
TokenResponses == {NetError} \cup {Http(st, b) : st \in {200, 500}, b \in TokenBodies}

Title(n) == Str(<<"book", ToString(n)>>)

Book(n, kind) ==
    LET info == [title |-> IF kind = "null_title" THEN None ELSE Title(n),
                 author |-> IF kind = "no_author" THEN Absent ELSE Str(<<"author">>),
                 readingProgress |-> Num(50),
                 markedStatus |-> Num(IF n % 2 = 0 THEN 4 ELSE 1),
                 cover |-> IF kind = "numeric_cover" THEN Num(7)
                           ELSE Str(HttpPrefix \o <<"s", ":", "/", "/", "c">>),
                 categories |-> IF kind = "untitled_category"
                                THEN List(<<Dict({<<"categoryId", Num(1)>>})>>)
                                ELSE List(<<Dict({<<"title", Str(<<"novel">>)>>})>>),
                 finishReadingTime |-> IF kind = "text_timestamp" THEN Str(<<"soon">>)
                                       ELSE Num(1700000000)]
    IN Dict({<<"bookId", Num(n)>>,
             <<"book", IF kind = "null_book" THEN None ELSE MkDict(info)>>})

\* the defects of the one odd book of a list
BookKinds == {"good", "null_title", "null_book", "numeric_cover"}

\* the lists the source answers with: books 1..len, at most one of them defective
BookLists ==
    {List([n \in 1..len |-> Book(n, IF n = p THEN kind ELSE "good")]) :
        len \in 1..MaxBooks, p \in 1..MaxBooks, kind \in BookKinds}

SourceBodies ==
    {NotJson, List(<<>>), Dict({<<"errcode", Num(-2012)>>}),
     Dict({<<"books", None>>}), Dict({<<"books", List(<<>>)>>}),
     Dict({<<"books", Dict({})>>})}
    \cup {Dict({<<"books", b>>}) : b \in BookLists}
SourceResponses ==
    {NetError, Http(401, Dict({<<"errcode", Num(-2012)>>}))}
    \cup {Http(200, b) : b \in SourceBodies}

WriteBodies ==
    {NotJson, List(<<>>), Dict({<<"code", Num(0)>>}),
     Dict({<<"code", Num(1254000)>>, <<"msg", Str(<<"wrong request">>)>>}), Dict({})}
WriteResponses == {NetError} \cup {Http(st, b) : st \in {200, 500}, b \in WriteBodies}

\* a record as the writer takes it: a dict with a "fields" dict
Record(n) == Dict({<<"fields", Dict({<<"title", Title(n)>>})>>})
RecordLists == {[n \in 1..len |-> Record(n)] : len \in 0..MaxRecords}

-----------------------------------------------------------------------------
(* main(), step by step *)

Min(a, b) == IF a < b THEN a ELSE b

\* a printed outcome line
Line(s) == [line |-> s]

\* lines 206-208
ValidateEnvironment ==
    /\ pc = "validate"
    /\ missing_vars' = MissingVars(env)
    /\ IF missing_vars' # <<>>
       THEN /\ output' = Append(output, Line("missing_env"))
            /\ pc' = "done"
       ELSE /\ output' = Append(output, Line("env_ok"))
            /\ pc' = "token"
    /\ UNCHANGED <<env, tz, access_token, calls, sleeps, attempt_number, books, k,
                   feishu_records, i, success_count, ret, uncaught>>

\* main() going on whatever the token fetch returned
TokenUsableAlways(token) == TRUE

\* line 212: `if not access_token`
TokenUsable(token) == Truthy(token)

\* lines 210-213
GetFeishuAccessToken ==
    /\ pc = "token"
    /\ \E resp \in TokenResponses :
        /\ calls' = Append(calls, [kind |-> "token_post", response |-> resp])
        /\ access_token' = get_feishu_access_token(resp)
    /\ IF TokenUsable(access_token')
       THEN /\ output' = Append(output, Line("token_ok"))
            /\ pc' = "fetch"
       ELSE /\ output' = Append(output, Line("token_failed"))
            /\ pc' = "done"
    /\ UNCHANGED <<env, tz, missing_vars, sleeps, attempt_number, books, k,
                   feishu_records, i, success_count, ret, uncaught>>

\* line 216, one turn of the retry decorator's loop (line 27): call the function;
\* hand its result to main unless it is to be retried; when it is and the attempts
\* are used up, raise (the function's own exception, else RetryError); otherwise
\* go on to the wait
FetchAttempt ==
    /\ pc = "fetch"
    /\ \E resp \in SourceResponses :
        LET attempt == get_weread_books(resp)
        IN /\ calls' = Append(calls, [kind |-> "source_get", attempt |-> attempt_number,
                                      result |-> attempt])
           /\ IF ~ShouldReject(attempt)
              THEN /\ books' = attempt.value
                   /\ pc' = "check_books"
                   /\ UNCHANGED uncaught
              ELSE IF attempt_number >= StopMaxAttemptNumber
              THEN /\ uncaught' = IF attempt.raised THEN attempt.exc ELSE "RetryError"
                   /\ pc' = "crashed"
                   /\ UNCHANGED books
              ELSE /\ pc' = "wait"
                   /\ UNCHANGED <<books, uncaught>>
    /\ UNCHANGED <<env, tz, missing_vars, access_token, sleeps, attempt_number, k,
                   feishu_records, i, success_count, ret, output>>

\* line 27: wait_fixed between two attempts
RetryWait ==
    /\ pc = "wait"
    /\ sleeps' = Append(sleeps, WaitFixed)
    /\ attempt_number' = attempt_number + 1
    /\ pc' = "fetch"
    /\ UNCHANGED <<env, tz, missing_vars, access_token, calls, books, k,
                   feishu_records, i, success_count, ret, output, uncaught>>

\* lines 217-223
MainCheckBooks ==
    /\ pc = "check_books"
    /\ IF ~Truthy(books)
       THEN /\ output' = Append(output, Line("fetch_abort"))
            /\ pc' = "done"
            /\ UNCHANGED <<k, feishu_records>>
       ELSE /\ feishu_records' = <<>>
            /\ k' = 1
            /\ pc' = "transform"
            /\ UNCHANGED output
    /\ UNCHANGED <<env, tz, missing_vars, access_token, calls, sleeps, attempt_number,
                   books, i, success_count, ret, uncaught>>

\* lines 224-226, one turn of the loop; an exception of the transform ends main()
TransformBook ==
    /\ pc = "transform"
    /\ k <= Len(books.items)
    /\ LET r == transform_book_to_feishu_record(books.items[k], tz)
       IN IF r.raised
          THEN /\ uncaught' = r.exc
               /\ pc' = "crashed"
               /\ UNCHANGED <<k, feishu_records>>
          ELSE /\ feishu_records' = Append(feishu_records, r.value)
               /\ k' = k + 1
               /\ pc' = IF k = Len(books.items) THEN "batch_enter" ELSE "transform"
               /\ UNCHANGED uncaught
    /\ UNCHANGED <<env, tz, missing_vars, access_token, calls, sleeps, attempt_number,
                   books, i, success_count, ret, output>>

-----------------------------------------------------------------------------
(* batch_update_feishu_table *)

\* line 143
batch_size == 10

\* line 178: the pause after each chunk, in milliseconds
BatchPause == 1000

\* a slice that stops one record early
ChunkShort(records, offset) ==
    SubSeq(records, offset + 1, Min(offset + batch_size, Len(records)) - 1)

\* line 146: records[i:i + batch_size], i counted from 0
Chunk(records, offset) ==
    SubSeq(records, offset + 1, Min(offset + batch_size, Len(records)))

\* the same test without the status code
WriteAcceptedLoose(resp) ==
    /\ resp.kind = "http"
    /\ resp.body # NotJson
    /\ resp.body.t = "dict"
    /\ Get(resp.body, "code", None) = Num(0)

\* lines 164-166: the call inserted its records
WriteAccepted(resp) ==
    /\ resp.kind = "http"
    /\ resp.status = 200
    /\ resp.body # NotJson
    /\ resp.body.t = "dict"
    /\ Get(resp.body, "code", None) = Num(0)

\* lines 133-143
BatchEnter ==
    /\ pc = "batch_enter"
    /\ IF feishu_records = <<>>
       THEN /\ output' = Append(output, Line("no_records"))
            /\ ret' = FALSE
            /\ pc' = "report"
            /\ UNCHANGED <<i, success_count>>
       ELSE /\ success_count' = 0
            /\ i' = 0
            /\ pc' = "batch_loop"
            /\ UNCHANGED <<ret, output>>
    /\ UNCHANGED <<env, tz, missing_vars, access_token, calls, sleeps, attempt_number,
                   books, k, feishu_records, uncaught>>

\* lines 145-178, one turn of the loop: every failure of the call is caught
BatchPost ==
    /\ pc = "batch_loop"
    /\ i < Len(feishu_records)
    /\ LET batch_records == Chunk(feishu_records, i)
           data == [n \in 1..Len(batch_records) |->
                        Dict({<<"fields", Get(batch_records[n], "fields", None)>>})]
       IN \E resp \in WriteResponses :
            /\ calls' = Append(calls, [kind |-> "batch_post", token |-> access_token,
                                       records |-> data, response |-> resp])
            /\ success_count' = IF WriteAccepted(resp)
                                THEN success_count + Len(batch_records)
                                ELSE success_count
    /\ sleeps' = Append(sleeps, BatchPause)
    /\ i' = i + batch_size
    /\ UNCHANGED <<env, tz, pc, missing_vars, access_token, attempt_number, books, k,
                   feishu_records, ret, output, uncaught>>

\* lines 180-181
BatchReturn ==
    /\ pc = "batch_loop"
    /\ i >= Len(feishu_records)
    /\ output' = Append(output, [line |-> "summary", succeeded |-> success_count,
                                 total |-> Len(feishu_records)])
    /\ ret' = (success_count > 0)
    /\ pc' = "report"
    /\ UNCHANGED <<env, tz, missing_vars, access_token, calls, sleeps, attempt_number,
                   books, k, feishu_records, i, success_count, uncaught>>

\* lines 232-235
MainReport ==
    /\ pc = "report"
    /\ output' = Append(output, Line(IF ret THEN "sync_done" ELSE "sync_error"))
    /\ pc' = "done"
    /\ UNCHANGED <<env, tz, missing_vars, access_token, calls, sleeps, attempt_number,
                   books, k, feishu_records, i, success_count, ret, uncaught>>

-----------------------------------------------------------------------------
(* Specifications *)

AllSet == [n \in {required_vars[m] : m \in DOMAIN required_vars} |-> Str(<<"set">>)]

Idle ==
    /\ missing_vars = <<>>
    /\ calls = <<>>
    /\ sleeps = <<>>
    /\ attempt_number = 1
    /\ k = 1
    /\ i = 0
    /\ success_count = 0
    /\ ret = FALSE
    /\ output = <<>>
    /\ uncaught = "none"

\* a run of main()
Init ==
    /\ env \in [{required_vars[n] : n \in DOMAIN required_vars} -> ConfigValues]
    /\ tz = 0
    /\ pc = "validate"
    /\ access_token = None
    /\ books = None
    /\ feishu_records = <<>>
    /\ Idle

Next ==
    \/ ValidateEnvironment
    \/ GetFeishuAccessToken
    \/ FetchAttempt
    \/ RetryWait
    \/ MainCheckBooks
    \/ TransformBook
    \/ BatchEnter
    \/ BatchPost
    \/ BatchReturn
    \/ MainReport

Spec == Init /\ [][Next]_vars

\* batch_update_feishu_table called on its own with any list of records
InitWriter ==
    /\ env = AllSet
    /\ tz = 0
    /\ pc = "batch_enter"
    /\ access_token = Token
    /\ books = None
    /\ feishu_records \in RecordLists
    /\ Idle

NextWriter ==
    \/ BatchEnter
    \/ BatchPost
    \/ BatchReturn

SpecWriter == InitWriter /\ [][NextWriter]_vars

\* transform_book_to_feishu_record applied to any one book, as main()'s loop does
TitleValues == {Absent, None, Title(1)}
AuthorValues == {Absent, None, Str(<<"author">>)}
ProgressValues == {Absent, None, Num(0), Num(50)}
StatusValues == {Absent, Num(4), Num(1)}
CoverValues ==
    {Absent, None, Str(<<>>), Str(HttpPrefix \o <<"s", ":", "/", "/", "c">>),
     Str(<<"f", "t", "p", ":", "/", "/", "c">>), Num(7)}
CategoryValues ==
    {Absent, None, List(<<>>), List(<<Dict({<<"title", Str(<<"novel">>)>>})>>),
     List(<<Dict({<<"title", Str(<<"novel">>)>>}), Dict({<<"categoryId", Num(1)>>})>>)}
FinishValues == {Absent, None, Num(1700000000), Str(<<"soon">>), BigNum}

BookInfos ==
    {MkDict([title |-> ti, author |-> au, readingProgress |-> pr, markedStatus |-> ms,
             cover |-> co, categories |-> ca, finishReadingTime |-> fi]) :
        ti \in TitleValues, au \in AuthorValues, pr \in ProgressValues,
        ms \in StatusValues, co \in CoverValues, ca \in CategoryValues,
        fi \in FinishValues}

AnyBooks ==
    {None, Dict({<<"bookId", Num(1)>>}), Dict({<<"bookId", Num(1)>>, <<"book", None>>})}
    \cup {Dict({<<"bookId", Num(1)>>, <<"book", info>>}) : info \in BookInfos}

InitTransform ==
    /\ env = AllSet
    /\ tz \in TzOffsets
    /\ pc = "transform"
    /\ access_token = Token
    /\ \E book \in AnyBooks : books = List(<<book>>)
    /\ feishu_records = <<>>
    /\ Idle

NextTransform == TransformBook

SpecTransform == InitTransform /\ [][NextTransform]_vars

-----------------------------------------------------------------------------
(* Reading the log of network calls *)

OfKind(kind) == SelectSeq(calls, LAMBDA c : c.kind = kind)
TokenPosts == OfKind("token_post")
SourceGets == OfKind("source_get")
BatchPosts == OfKind("batch_post")

RECURSIVE Concat(_)
\* the record lists of a sequence of batch-create calls, one after the other
Concat(posts) ==
    IF posts = <<>> THEN <<>> ELSE Head(posts).records \o Concat(Tail(posts))

\* the answer is HTTP 200 with a JSON object whose code is 0
Is200Code0(resp) ==
    /\ resp.kind = "http"
    /\ resp.status = 200
    /\ resp.body.t = "dict"
    /\ <<"code", Num(0)>> \in resp.body.kv

RECURSIVE AcceptedSizes(_)
\* the sum of the sizes of the batch-create calls answered 200 / code 0
AcceptedSizes(posts) ==
    IF posts = <<>> THEN 0
    ELSE (IF Is200Code0(Head(posts).response) THEN Len(Head(posts).records) ELSE 0)
         + AcceptedSizes(Tail(posts))

\* the attempt gave None or an empty list
EmptyOrAbsent(result) ==
    /\ ~result.raised
    /\ result.value \in {None, List(<<>>)}

\* all attempts the decorator allows were made and each gave None or an empty list
ExhaustedEmpty ==
    /\ Len(SourceGets) = 3
    /\ \A n \in 1..3 : EmptyOrAbsent(SourceGets[n].result)

Ended == pc \in {"done", "crashed"}

-----------------------------------------------------------------------------
(* C1: the writer issues ceil(N / 10) batch-create calls for N records, each  *)
(* with at most 10 records, and the calls' record lists, in the order issued, *)
(* make up the input list: nothing skipped, doubled or reordered, whatever    *)
(* the outcome of each call.  While the loop runs, the calls so far carry a   *)
(* prefix of the input.                                                       *)
C1_BatchesCoverInput ==
    LET sent == Concat(BatchPosts)
        N == Len(feishu_records)
    IN /\ \A n \in DOMAIN BatchPosts : Len(BatchPosts[n].records) \in 1..10
       /\ Len(sent) <= N
       /\ sent = SubSeq(feishu_records, 1, Len(sent))
       /\ Len(BatchPosts) = (Len(sent) + 9) \div 10
       /\ pc = "report" => sent = feishu_records

\* 23 records went out in three calls though the second call failed
C1_Witness ==
    /\ pc = "report"
    /\ Len(feishu_records) = 23
    /\ Len(BatchPosts) = 3
    /\ BatchPosts[2].response = NetError
    /\ Len(BatchPosts[3].records) = 3

(* C2: when the writer finishes, the succeeded count is the sum of the sizes *)
(* of the chunks whose call was answered HTTP 200 with code 0, every other   *)
(* chunk adds nothing, the count never exceeds the total, and the writer     *)
(* returns true exactly when the count is above 0.                           *)
C2_CountIsAcceptedChunks ==
    /\ pc = "batch_loop" => success_count = AcceptedSizes(BatchPosts)
    /\ pc = "report" =>
        /\ success_count = AcceptedSizes(BatchPosts)
        /\ success_count <= Len(feishu_records)
        /\ ret = (success_count > 0)
        /\ feishu_records # <<>> =>
             output[Len(output)] = [line |-> "summary", succeeded |-> AcceptedSizes(BatchPosts),
                                    total |-> Len(feishu_records)]

\* 23 records, only the second of the three calls failed: 13/23, returns true
C2_Witness ==
    /\ pc = "report"
    /\ Len(feishu_records) = 23
    /\ Len(BatchPosts) = 3
    /\ Is200Code0(BatchPosts[1].response)
    /\ ~Is200Code0(BatchPosts[2].response)
    /\ Is200Code0(BatchPosts[3].response)
    /\ output[Len(output)] = [line |-> "summary", succeeded |-> 13, total |-> 23]
    /\ ret = TRUE

(* C3: when each of the 3 attempts of the source read gave an empty or      *)
(* absent result, the run has ended and no batch-create call was issued.    *)
C3_NoWriteAfterEmptyRead ==
    ExhaustedEmpty => Ended /\ BatchPosts = <<>>

C3_Witness ==
    /\ ExhaustedEmpty
    /\ Ended
    /\ SourceGets[1].result = Returned(None)
    /\ SourceGets[3].result = Returned(List(<<>>))

(* C4: when one of the five configuration values is absent or empty, main   *)
(* ends after validate_environment without any network call, and the list  *)
(* of missing names it reports holds exactly the absent or empty ones.      *)
C4_MissingConfigNoCalls ==
    LET absent == {name \in DOMAIN env : env[name] \in {None, Str(<<>>)}}
    IN absent # {} =>
        /\ calls = <<>>
        /\ pc \in {"validate", "done"}
        /\ pc = "done" =>
            /\ {missing_vars[n] : n \in DOMAIN missing_vars} = absent
            /\ Len(missing_vars) = Cardinality(absent)
            /\ output = <<Line("missing_env")>>

\* exactly one value (an empty FEISHU_TABLE_ID) is missing and main has ended
C4_Witness ==
    /\ pc = "done"
    /\ env["FEISHU_TABLE_ID"] = Str(<<>>)
    /\ missing_vars = <<"FEISHU_TABLE_ID">>
    /\ calls = <<>>

(* C5: get_feishu_access_token gives a token only when the token endpoint    *)
(* answered HTTP 200 with a body whose code is 0, gives no token for every   *)
(* other outcome, and posts exactly once.                                    *)
C5_TokenOnlyOn200Code0 ==
    /\ Len(TokenPosts) <= 1
    /\ access_token \notin {None, Str(<<>>)} =>
        /\ Len(TokenPosts) = 1
        /\ Is200Code0(TokenPosts[1].response)

(* C6: every destination record has a title and an author that are not     *)
(* null: the placeholder stands in whenever the source has no value, the    *)
(* key missing or its value null.                                           *)
C6_TitleAuthorNeverNull ==
    \A n \in DOMAIN feishu_records :
        LET fields == Get(feishu_records[n], "fields", None)
        IN /\ Get(fields, "title", None) # None
           /\ Get(fields, "author", None) # None

(* C7: transform_book_to_feishu_record never raises, so once main holds the *)
(* book list no record ends the run with an exception before the records   *)
(* are written.                                                             *)
C7_TransformNeverRaises ==
    books # None => uncaught = "none" /\ pc # "crashed"

(* C8: after 3 attempts that each gave an empty or absent result, the       *)
(* source read hands an empty result to main without an exception, and main *)
(* ends by its own branch that reports that the data could not be fetched.  *)
C8_ExhaustionReturnsToMain ==
    ExhaustedEmpty =>
        /\ uncaught = "none"
        /\ pc \in {"check_books", "done"}
        /\ pc = "done" => output[Len(output)] = Line("fetch_abort")

(* C9: the network calls come in program order: the token POST before any  *)
(* source GET, every source GET before any batch-create POST; a source GET  *)
(* only after a non-empty token was returned; a batch-create POST only      *)
(* after the source read returned a non-empty list; the batch-create POSTs  *)
(* carry the books' records in the order of the source list.                *)
Rank(kind) ==
    CASE kind = "token_post" -> 1
      [] kind = "source_get" -> 2
      [] kind = "batch_post" -> 3

C9_ProgramOrder ==
    LET sent == Concat(BatchPosts)
    IN /\ \A m, n \in DOMAIN calls : m < n => Rank(calls[m].kind) <= Rank(calls[n].kind)
       /\ Len(TokenPosts) <= 1
       /\ SourceGets # <<>> =>
            /\ calls[1].kind = "token_post"
            /\ access_token \notin {None, Str(<<>>)}
            /\ access_token.t = "str"
       /\ BatchPosts # <<>> =>
            /\ SourceGets # <<>>
            /\ SourceGets[Len(SourceGets)].result = Returned(books)
            /\ books.t = "list"
            /\ books.items # <<>>
            /\ Len(sent) <= Len(books.items)
            /\ \A n \in DOMAIN sent :
                 Get(Get(sent[n], "fields", None), "title", None)
                   = Get(Get(books.items[n], "book", None), "title", None)
            /\ \A n \in DOMAIN BatchPosts : BatchPosts[n].token = access_token

\* a run with a retried source read and two batch-create calls
C9_Witness ==
    /\ pc = "done"
    /\ Len(SourceGets) = 2
    /\ Len(BatchPosts) = 2
    /\ Len(Concat(BatchPosts)) = 11

(* C10: the retry of the source read.  RetryShape(again) says: at most 3    *)
(* attempts, numbered from 1; a further attempt only after an attempt for   *)
(* which `again` holds; an attempt that returns a non-empty list is the     *)
(* last one and main receives that list; one wait of 2 seconds between two  *)
(* consecutive attempts.                                                    *)
RetryShape(again(_)) ==
    LET gets == SourceGets
        waits == SelectSeq(sleeps, LAMBDA ms : ms = 2000)
    IN /\ Len(gets) <= 3
       /\ \A n \in DOMAIN gets : gets[n].attempt = n
       /\ \A n \in DOMAIN gets : n > 1 => again(gets[n - 1].result)
       /\ \A n \in DOMAIN gets :
            ~gets[n].result.raised /\ Truthy(gets[n].result.value) =>
                /\ n = Len(gets)
                /\ books = gets[n].result.value
                /\ pc # "wait"
       /\ Len(waits) = IF pc = "fetch" THEN Len(gets)
                       ELSE IF gets = <<>> THEN 0 ELSE Len(gets) - 1
       /\ BatchPosts = <<>> => sleeps = waits

\* C10 as claimed: a further attempt only after None or an empty list
C10_RetryOnlyAfterEmpty == RetryShape(EmptyOrAbsent)

EmptyOrRaised(result) == result.raised \/ EmptyOrAbsent(result)

\* C10 as amended: a further attempt only after None, an empty list, or an
\* exception that escaped the function
C10_RetryAfterEmptyOrRaised == RetryShape(EmptyOrRaised)

\* the third attempt, after an exception and an empty list, returned the books
C10_Witness ==
    /\ Len(SourceGets) = 3
    /\ SourceGets[1].result.raised
    /\ SourceGets[2].result = Returned(List(<<>>))
    /\ pc = "check_books"
    /\ Truthy(books)
    /\ sleeps = <<2000, 2000>>

====
